---- MODULE Spec2Model ----
(***************************************************************************)
(* Model of Model::run of stt-rs/src/main.rs: the padded waveform is fed   *)
(* to the streaming decoder in chunks of 1920 samples, and the messages    *)
(* each step_pcm call returns are turned into transcript output.           *)
(*                                                                         *)
(* Times are in hundredths of a second, probabilities in hundredths.       *)
(* The decoder (moshi::asr::State::step_pcm) and the tokenizer are         *)
(* external: the decoder's answer to a chunk is any short list of messages *)
(* or an error, the tokenizer's answer is fixed per piece-id list.         *)
(* print!/println! are taken to succeed (they panic otherwise); the        *)
(* explicit stdout flush of the plain-text path can return an error.       *)
(*                                                                         *)
(* The module holds three state machines over disjoint variables:          *)
(*   Spec        the chunk loop and the message arms of Model::run, with   *)
(*               the waveform reduced to its length;                       *)
(*   SpecPad     the padding of the waveform at the head of Model::run,    *)
(*               with the samples themselves;                              *)
(*   SpecHealth  health_handler and check_websocket of the health-check    *)
(*               service, one process per request in flight.               *)
(* Each specification leaves the variables of the other two at rest.       *)
(***************************************************************************)
EXTENDS Integers, Sequences, FiniteSets, TLC

VARIABLES
    timestamps,   \* Model.timestamps (--timestamps)
    vad,          \* Model.vad (--vad)
    pcm_len,      \* length of pcm after the padding of lines 175-183
    pos,          \* offset of the next chunk of pcm.chunks(1920)
    asr_msgs,     \* messages of the current chunk still to be matched
    last_word,    \* Option<(word, start_time)>
    printed_eot,  \* end-of-turn latch
    pc,           \* "run", "done" (Ok(())) or "failed" (Err returned)
    err,          \* which `?` returned: "none", "decode" or "io"
    out,          \* what print!/println! were given, in order
    evlog,        \* history: the messages matched so far, in order
    fed,          \* history: the offsets of the chunks given to step_pcm
    \* the padding of Model::run (SpecPad)
    raw,          \* history: the pcm argument as it was passed
    pcm,          \* the pcm vector
    prefix_us,    \* stt_config.audio_silence_prefix_seconds, microseconds
    delay_us,     \* stt_config.audio_delay_seconds, microseconds
    pad_pc,       \* "idle", "prefix" (line 176), "suffix" (181), "padded"
    \* the health-check service (SpecHealth)
    handler,      \* per request slot: where its health_handler call stands
    nconn,        \* history: connect_async calls made so far
    responses     \* history: the responses sent, in order

runvars == <<timestamps, vad, pcm_len, pos, asr_msgs, last_word, printed_eot,
             pc, err, out, evlog, fed>>
padvars == <<raw, pcm, prefix_us, delay_us, pad_pc>>
hcvars == <<handler, nconn, responses>>

vars == <<runvars, padvars, hcvars>>

-----------------------------------------------------------------------------
(* Bounds of the model *)

\* messages matched in one run, at most
MaxEvents == 3

\* samples of the raw waveform in SpecPad, at most
MaxRawLen == 2

\* messages one step_pcm call returns, at most
MaxPerFrame == 2

\* health_handler calls in flight at once in SpecHealth, at most
MaxSlots == 2

\* connect_async calls in one behaviour of SpecHealth, at most
MaxConns == 3

(* Program constants *)

\* samples per second of the waveform
SAMPLE_RATE == 24000

\* samples per chunk
CHUNK == 1920

\* the threshold of prs[2][0], in hundredths
EOT_THRESHOLD == 50

\* the horizon read by the Step arm: prs[2], the third of four
EOT_HORIZON == 3

\* the blank right edge of the end-of-stream line
OPEN == -1

-----------------------------------------------------------------------------
(* Inputs *)

\* raw waveform lengths, in samples
RawLens == {0, 960}

\* audio_silence_prefix_seconds and audio_delay_seconds, in microseconds
PrefixUs == {0}
DelayUs == {0}

\* inputs of SpecPad: sample values, and the two durations in microseconds
\* (50 us is 1.2 samples, 100 us is 2.4 samples)
SampleVals == {0, 5, -5}
PadPrefixUs == {-50, 0, 50, 100}
PadDelayUs == {-50, 0, 50, 100}

Waveforms(n) == UNION {[1..k -> SampleVals] : k \in 0..n}

\* stop_time values of an EndWord, hundredths of a second
StopTimes == {30}

\* prs of a Step: no-voice probability at the four horizons, hundredths
PrsVals == {<<90, 90, 50, 90>>, <<20, 30, 60, 10>>, <<10, 20, 70, 80>>}

\* piece-id lists of a Word; TokBad is one the tokenizer cannot decode
TokHello == <<17>>
TokWorld == <<42>>
TokBad == <<99>>

\* (tokens, start_time) of a Word, start_time in hundredths of a second
WordVals == {<<TokHello, 0>>, <<TokWorld, 40>>, <<TokBad, 40>>}

NoPrs == <<0, 0, 0, 0>>

StepMsg(prs) == [type |-> "Step", prs |-> prs, tokens |-> <<>>, time |-> 0]
WordMsg(tokens, start_time) ==
    [type |-> "Word", prs |-> NoPrs, tokens |-> tokens, time |-> start_time]
EndWordMsg(stop_time) ==
    [type |-> "EndWord", prs |-> NoPrs, tokens |-> <<>>, time |-> stop_time]

AsrMsg ==
    {StepMsg(p) : p \in PrsVals}
    \cup {WordMsg(w[1], w[2]) : w \in WordVals}
    \cup {EndWordMsg(s) : s \in StopTimes}

MsgLists(n) == UNION {[1..k -> AsrMsg] : k \in 0..n}

-----------------------------------------------------------------------------
(* Helpers of Model::run *)

\* a chunk end that is not cut at the end of the vector
Min_unclamped(a, b) == a

Min(a, b) == IF a < b THEN a ELSE b

\* (seconds * 24000.0) as usize, seconds given in microseconds: the cast
\* drops the fraction, and a negative product saturates to 0
SamplesOf(us) == IF us > 0 THEN (us * SAMPLE_RATE) \div 1000000 ELSE 0

\* length of pcm after lines 175-183
PaddedLen(n, prefix, delay) ==
    LET withPrefix == IF prefix > 0 THEN n + SamplesOf(prefix) ELSE n
    IN  withPrefix + SamplesOf(delay) + SAMPLE_RATE

\* vec![0.0; n]
Zeros(n) == [i \in 1..n |-> 0]

\* v.splice(0..0, items)
SpliceFront(v, items) == items \o v

\* v.resize(new_len, value)
Resize(v, new_len, value) ==
    IF new_len <= Len(v) THEN SubSeq(v, 1, new_len)
    ELSE v \o [i \in 1..(new_len - Len(v)) |-> value]

\* the trailing pad without the extra second
SuffixLen_noExtra(delay) == SamplesOf(delay)

\* suffix + 24000 of line 183
SuffixLen(delay) == SamplesOf(delay) + SAMPLE_RATE

\* text_tokenizer.decode_piece_ids(tokens)
decode_piece_ids(tokens) ==
    CASE tokens = TokHello -> [ok |-> TRUE, text |-> "hello"]
      [] tokens = TokWorld -> [ok |-> TRUE, text |-> "world"]
      [] OTHER -> [ok |-> FALSE, text |-> "error"]

\* the error's text printed in place of the word
WordText_errText(tokens) == decode_piece_ids(tokens).text

\* decode_piece_ids(tokens).unwrap_or_else(|_| String::new())
WordText(tokens) ==
    LET r == decode_piece_ids(tokens) IN IF r.ok THEN r.text ELSE ""

None == [some |-> FALSE, word |-> "", start |-> 0, ev |-> 0]
Some(word, start_time, ev) ==
    [some |-> TRUE, word |-> word, start |-> start_time, ev |-> ev]

\* Output items.  ev is history: the index in evlog of the message the item
\* comes from (the Word of a word, the Step of a marker), 0 for the final
\* empty line.
\* println!("[{start:5.2}-{stop:5.2}] {word}"), stop = OPEN for the blank
Line(lw, stop) ==
    [kind |-> "line", text |-> lw.word, start |-> lw.start, stop |-> stop,
     pr |-> 0, nl |-> TRUE, ev |-> lw.ev]
\* print!(" {word}")
Text(word, ev) ==
    [kind |-> "text", text |-> word, start |-> 0, stop |-> 0,
     pr |-> 0, nl |-> FALSE, ev |-> ev]
\* print!(" <endofturn pr={}>") or println!("<endofturn pr={}>")
Eot(p, nl, ev) ==
    [kind |-> "eot", text |-> "", start |-> 0, stop |-> 0,
     pr |-> p, nl |-> nl, ev |-> ev]
\* println!()
Blank ==
    [kind |-> "blank", text |-> "", start |-> 0, stop |-> 0,
     pr |-> 0, nl |-> TRUE, ev |-> 0]

\* if let Some((word, start)) = last_word.take() { println!(...) }
TakeLine(lw, stop) == IF lw.some THEN <<Line(lw, stop)>> ELSE <<>>

\* the test without its latch conjunct
EotFires_noLatch(prs, latched) ==
    vad /\ prs[EOT_HORIZON] > EOT_THRESHOLD

\* the test with >= for >
EotFires_ge(prs, latched) ==
    vad /\ prs[EOT_HORIZON] >= EOT_THRESHOLD /\ ~latched

\* self.vad && prs[2][0] > 0.5 && !printed_eot
EotFires(prs, latched) ==
    vad /\ prs[EOT_HORIZON] > EOT_THRESHOLD /\ ~latched

-----------------------------------------------------------------------------
\* the variables of SpecPad and SpecHealth while another specification runs
PadAtRest ==
    raw = <<>> /\ pcm = <<>> /\ prefix_us = 0 /\ delay_us = 0 /\ pad_pc = "idle"
HealthAtRest ==
    handler = <<>> /\ nconn = 0 /\ responses = <<>>

Init ==
    /\ timestamps \in BOOLEAN
    /\ vad \in BOOLEAN
    /\ \E n \in RawLens, p \in PrefixUs, d \in DelayUs :
          pcm_len = PaddedLen(n, p, d)
    /\ pos = 0
    /\ asr_msgs = <<>>
    /\ last_word = None
    /\ printed_eot = FALSE
    /\ pc = "run"
    /\ err = "none"
    /\ out = <<>>
    /\ evlog = <<>>
    /\ fed = <<>>
    /\ PadAtRest
    /\ HealthAtRest

AtChunk == pc = "run" /\ asr_msgs = <<>> /\ pos < pcm_len
AtMsg(type) == pc = "run" /\ asr_msgs # <<>> /\ Head(asr_msgs).type = type

\* lines 187-189, step_pcm returns Ok(asr_msgs)
Feed ==
    /\ UNCHANGED <<padvars, hcvars>>
    /\ AtChunk
    /\ \E msgs \in MsgLists(MaxPerFrame) :
          /\ Len(evlog) + Len(msgs) <= MaxEvents
          /\ asr_msgs' = msgs
    /\ pos' = Min(pos + CHUNK, pcm_len)
    /\ fed' = Append(fed, pos)
    /\ UNCHANGED <<timestamps, vad, pcm_len, last_word, printed_eot, pc, err,
                   out, evlog>>

\* the error of a chunk dropped and the loop going on to the next chunk
FeedFail_skip ==
    /\ UNCHANGED <<padvars, hcvars>>
    /\ AtChunk
    /\ fed' = Append(fed, pos)
    /\ pos' = Min(pos + CHUNK, pcm_len)
    /\ err' = "decode"
    /\ UNCHANGED <<timestamps, vad, pcm_len, pc, asr_msgs, last_word,
                   printed_eot, out, evlog>>

\* the error of a chunk dropped and the same chunk given again
FeedFail_retry ==
    /\ UNCHANGED <<padvars, hcvars>>
    /\ AtChunk
    /\ fed' = Append(fed, pos)
    /\ UNCHANGED <<timestamps, vad, pcm_len, pos, pc, err, asr_msgs, last_word,
                   printed_eot, out, evlog>>

\* the error of a chunk leaving the loop by `break`: the code after the
\* loop prints last_word and the empty line before the error is returned
FeedFail_flush ==
    /\ UNCHANGED <<padvars, hcvars>>
    /\ AtChunk
    /\ fed' = Append(fed, pos)
    /\ out' = (out \o TakeLine(last_word, OPEN)) \o <<Blank>>
    /\ last_word' = None
    /\ pc' = "failed"
    /\ err' = "decode"
    /\ UNCHANGED <<timestamps, vad, pcm_len, pos, asr_msgs, printed_eot, evlog>>

\* lines 188-189, Tensor::new / reshape / step_pcm returns Err: `?` returns it
FeedFail ==
    /\ UNCHANGED <<padvars, hcvars>>
    /\ AtChunk
    /\ fed' = Append(fed, pos)
    /\ pc' = "failed"
    /\ err' = "decode"
    /\ UNCHANGED <<timestamps, vad, pcm_len, pos, asr_msgs, last_word,
                   printed_eot, out, evlog>>

\* lines 192-204
OnStep ==
    /\ UNCHANGED <<padvars, hcvars>>
    /\ AtMsg("Step")
    /\ LET m == Head(asr_msgs)
           ev == Len(evlog) + 1
       IN  /\ IF EotFires(m.prs, printed_eot)
              THEN /\ printed_eot' = TRUE
                   /\ out' = Append(out, Eot(m.prs[EOT_HORIZON], timestamps, ev))
              ELSE UNCHANGED <<printed_eot, out>>
           /\ evlog' = Append(evlog, m)
    /\ asr_msgs' = Tail(asr_msgs)
    /\ UNCHANGED <<timestamps, vad, pcm_len, pos, last_word, pc, err, fed>>

\* the EndWord arm without printed_eot = false
OnEndWord_keepLatch ==
    /\ UNCHANGED <<padvars, hcvars>>
    /\ AtMsg("EndWord")
    /\ LET m == Head(asr_msgs)
       IN  /\ IF timestamps
              THEN /\ out' = out \o TakeLine(last_word, m.time)
                   /\ last_word' = None
              ELSE UNCHANGED <<out, last_word>>
           /\ evlog' = Append(evlog, m)
    /\ asr_msgs' = Tail(asr_msgs)
    /\ UNCHANGED <<timestamps, vad, pcm_len, pos, pc, err, fed, printed_eot>>

\* the EndWord arm reading last_word without take()
OnEndWord_noTake ==
    /\ UNCHANGED <<padvars, hcvars>>
    /\ AtMsg("EndWord")
    /\ LET m == Head(asr_msgs)
       IN  /\ printed_eot' = FALSE
           /\ IF timestamps
              THEN out' = out \o TakeLine(last_word, m.time)
              ELSE UNCHANGED out
           /\ evlog' = Append(evlog, m)
    /\ asr_msgs' = Tail(asr_msgs)
    /\ UNCHANGED <<timestamps, vad, pcm_len, pos, pc, err, fed, last_word>>

\* the EndWord arm that only clears the latch
OnEndWord_latchOnly ==
    /\ UNCHANGED <<padvars, hcvars>>
    /\ AtMsg("EndWord")
    /\ printed_eot' = FALSE
    /\ evlog' = Append(evlog, Head(asr_msgs))
    /\ asr_msgs' = Tail(asr_msgs)
    /\ UNCHANGED <<timestamps, vad, pcm_len, pos, pc, err, fed, out, last_word>>

\* lines 205-213
OnEndWord ==
    /\ UNCHANGED <<padvars, hcvars>>
    /\ AtMsg("EndWord")
    /\ LET m == Head(asr_msgs)
       IN  /\ printed_eot' = FALSE
           /\ IF timestamps
              THEN /\ out' = out \o TakeLine(last_word, m.time)
                   /\ last_word' = None
              ELSE UNCHANGED <<out, last_word>>
           /\ evlog' = Append(evlog, m)
    /\ asr_msgs' = Tail(asr_msgs)
    /\ UNCHANGED <<timestamps, vad, pcm_len, pos, pc, err, fed>>

\* the Word arm overwriting last_word without printing the word it held
OnWord_overwrite ==
    /\ UNCHANGED <<padvars, hcvars>>
    /\ AtMsg("Word")
    /\ LET m == Head(asr_msgs)
           ev == Len(evlog) + 1
           word == WordText(m.tokens)
       IN  /\ printed_eot' = FALSE
           /\ evlog' = Append(evlog, m)
           /\ IF ~timestamps
              THEN /\ out' = Append(out, Text(word, ev))
                   /\ UNCHANGED last_word
                   /\ \E flushed \in BOOLEAN :
                         IF flushed
                         THEN /\ asr_msgs' = Tail(asr_msgs)
                              /\ UNCHANGED <<pc, err>>
                         ELSE /\ pc' = "failed"
                              /\ err' = "io"
                              /\ UNCHANGED asr_msgs
              ELSE /\ out' = out
                   /\ last_word' = Some(word, m.time, ev)
                   /\ asr_msgs' = Tail(asr_msgs)
                   /\ UNCHANGED <<pc, err>>
    /\ UNCHANGED <<timestamps, vad, pcm_len, pos, fed>>

\* the Word arm filling last_word in the plain-text path too
OnWord_alwaysPending ==
    /\ UNCHANGED <<padvars, hcvars>>
    /\ AtMsg("Word")
    /\ LET m == Head(asr_msgs)
           ev == Len(evlog) + 1
           word == WordText(m.tokens)
       IN  /\ printed_eot' = FALSE
           /\ evlog' = Append(evlog, m)
           /\ last_word' = Some(word, m.time, ev)
           /\ IF ~timestamps
              THEN /\ out' = Append(out, Text(word, ev))
                   /\ \E flushed \in BOOLEAN :
                         IF flushed
                         THEN /\ asr_msgs' = Tail(asr_msgs)
                              /\ UNCHANGED <<pc, err>>
                         ELSE /\ pc' = "failed"
                              /\ err' = "io"
                              /\ UNCHANGED asr_msgs
              ELSE /\ out' = out \o TakeLine(last_word, m.time)
                   /\ asr_msgs' = Tail(asr_msgs)
                   /\ UNCHANGED <<pc, err>>
    /\ UNCHANGED <<timestamps, vad, pcm_len, pos, fed>>

\* lines 214-231
OnWord ==
    /\ UNCHANGED <<padvars, hcvars>>
    /\ AtMsg("Word")
    /\ LET m == Head(asr_msgs)
           ev == Len(evlog) + 1
           word == WordText(m.tokens)
       IN  /\ printed_eot' = FALSE
           /\ evlog' = Append(evlog, m)
           /\ IF ~timestamps
              THEN /\ out' = Append(out, Text(word, ev))
                   /\ UNCHANGED last_word
                   /\ \E flushed \in BOOLEAN :
                         IF flushed
                         THEN /\ asr_msgs' = Tail(asr_msgs)
                              /\ UNCHANGED <<pc, err>>
                         ELSE /\ pc' = "failed"
                              /\ err' = "io"
                              /\ UNCHANGED asr_msgs
              ELSE /\ out' = out \o TakeLine(last_word, m.time)
                   /\ last_word' = Some(word, m.time, ev)
                   /\ asr_msgs' = Tail(asr_msgs)
                   /\ UNCHANGED <<pc, err>>
    /\ UNCHANGED <<timestamps, vad, pcm_len, pos, fed>>

\* the end of the run reading last_word without take()
EndOfStream_noTake ==
    /\ UNCHANGED <<padvars, hcvars>>
    /\ pc = "run" /\ asr_msgs = <<>> /\ pos = pcm_len
    /\ out' = (out \o TakeLine(last_word, OPEN)) \o <<Blank>>
    /\ pc' = "done"
    /\ UNCHANGED <<timestamps, vad, pcm_len, pos, asr_msgs, printed_eot, err,
                   evlog, fed, last_word>>

\* the end of the run without the final flush of last_word
EndOfStream_noFlush ==
    /\ UNCHANGED <<padvars, hcvars>>
    /\ pc = "run" /\ asr_msgs = <<>> /\ pos = pcm_len
    /\ out' = Append(out, Blank)
    /\ pc' = "done"
    /\ UNCHANGED <<timestamps, vad, pcm_len, pos, asr_msgs, printed_eot, err,
                   evlog, fed, last_word>>

\* lines 235-239
EndOfStream ==
    /\ UNCHANGED <<padvars, hcvars>>
    /\ pc = "run" /\ asr_msgs = <<>> /\ pos = pcm_len
    /\ out' = (out \o TakeLine(last_word, OPEN)) \o <<Blank>>
    /\ last_word' = None
    /\ pc' = "done"
    /\ UNCHANGED <<timestamps, vad, pcm_len, pos, asr_msgs, printed_eot, err,
                   evlog, fed>>

-----------------------------------------------------------------------------
(* The padding at the head of Model::run, lines 175-183 *)

InitPad ==
    /\ raw \in Waveforms(MaxRawLen)
    /\ pcm = raw
    /\ prefix_us \in PadPrefixUs
    /\ delay_us \in PadDelayUs
    /\ pad_pc = "prefix"
    /\ timestamps = FALSE /\ vad = FALSE /\ pcm_len = 0 /\ pos = 0
    /\ asr_msgs = <<>> /\ last_word = None /\ printed_eot = FALSE
    /\ pc = "pad" /\ err = "none" /\ out = <<>> /\ evlog = <<>> /\ fed = <<>>
    /\ HealthAtRest

\* lines 175-180
PadPrefix ==
    /\ pad_pc = "prefix"
    /\ pcm' = IF prefix_us > 0
              THEN SpliceFront(pcm, Zeros(SamplesOf(prefix_us)))
              ELSE pcm
    /\ pad_pc' = "suffix"
    /\ UNCHANGED <<raw, prefix_us, delay_us, runvars, hcvars>>

\* lines 181-183
PadSuffix ==
    /\ pad_pc = "suffix"
    /\ pcm' = Resize(pcm, Len(pcm) + SuffixLen(delay_us), 0)
    /\ pad_pc' = "padded"
    /\ UNCHANGED <<raw, prefix_us, delay_us, runvars, hcvars>>

NextPad == PadPrefix \/ PadSuffix

SpecPad == InitPad /\ [][NextPad]_vars

-----------------------------------------------------------------------------
Next == Feed \/ FeedFail \/ OnStep \/ OnEndWord \/ OnWord \/ EndOfStream

Spec == Init /\ [][Next]_vars

-----------------------------------------------------------------------------
(* The health-check service: health_handler and check_websocket.  One slot *)
(* is one health_handler call in flight; axum runs the calls of different  *)
(* requests concurrently.  The remote end decides how connect_async ends;  *)
(* the tokio timer ends the wait for it after 5 seconds.                   *)

Slots == 1..MaxSlots

\* SystemTime::now() in seconds since the epoch
Clock == {1762400000}

Idle == [pc |-> "idle", conn |-> 0, connect |-> "none"]

\* Result<bool, String>
Ok(b) == [ok |-> TRUE, available |-> b, error |-> ""]
Err(e) == [ok |-> FALSE, available |-> FALSE, error |-> e]

\* check_websocket with the result of the close deciding
check_websocket_closeChecked(connect, close) ==
    CASE connect = "ok" ->
            IF close = "ok" THEN Ok(TRUE)
            ELSE Err("WebSocket close failed: reset")
      [] connect = "err" -> Err("WebSocket connection failed: refused")
      [] OTHER -> Err("WebSocket connection timeout")

\* check_websocket returning Ok(closed)
check_websocket_okFalse(connect, close) ==
    CASE connect = "ok" -> Ok(close = "ok")
      [] connect = "err" -> Err("WebSocket connection failed: refused")
      [] OTHER -> Err("WebSocket connection timeout")

\* lines 32-42: what check_websocket returns, given how
\* timeout(5 s, connect_async(..)) ended ("ok", "err", "timeout") and how
\* ws_stream.close(None) ended ("ok", "err"; "none" when not called)
check_websocket(connect, close) ==
    CASE connect = "ok" -> Ok(TRUE)
      [] connect = "err" -> Err("WebSocket connection failed: refused")
      [] OTHER -> Err("WebSocket connection timeout")

\* lines 47-73: the status code and the body health_handler answers with
health_handler(ws_check, now) ==
    LET ws_available == IF ws_check.ok THEN ws_check.available ELSE FALSE
    IN  [http |-> IF ws_available THEN 200 ELSE 503,
         status |-> IF ws_available THEN "healthy" ELSE "degraded",
         websocket_available |-> ws_available,
         timestamp |-> now,
         service |-> "kyutai-stt-server",
         has_error |-> ~ws_check.ok,
         error |-> IF ws_check.ok THEN "" ELSE ws_check.error]

\* history entry of a response: the slot, its connection, how connect and
\* close ended, and what was answered
Sent(s, connect, close, now) ==
    [slot |-> s, conn |-> handler[s].conn, connect |-> connect,
     close |-> close,
     resp |-> health_handler(check_websocket(connect, close), now)]

InitHealth ==
    /\ handler = [s \in Slots |-> Idle]
    /\ nconn = 0
    /\ responses = <<>>
    /\ timestamps = FALSE /\ vad = FALSE /\ pcm_len = 0 /\ pos = 0
    /\ asr_msgs = <<>> /\ last_word = None /\ printed_eot = FALSE
    /\ pc = "health" /\ err = "none" /\ out = <<>> /\ evlog = <<>> /\ fed = <<>>
    /\ PadAtRest

\* lines 44-45, 33: a GET /health arrives, connect_async is started
Request(s) ==
    /\ handler[s].pc = "idle"
    /\ nconn < MaxConns
    /\ nconn' = nconn + 1
    /\ handler' = [handler EXCEPT ![s] =
          [pc |-> "connecting", conn |-> nconn + 1, connect |-> "none"]]
    /\ UNCHANGED <<responses, runvars, padvars>>

\* line 34: Ok(Ok((ws_stream, _))), ws_stream.close(None) is awaited
ConnectOk(s) ==
    /\ handler[s].pc = "connecting"
    /\ handler' = [handler EXCEPT ![s].pc = "closing", ![s].connect = "ok"]
    /\ UNCHANGED <<nconn, responses, runvars, padvars>>

\* line 39: Ok(Err(e)), and the answer of lines 47-73
ConnectErr(s) ==
    /\ handler[s].pc = "connecting"
    /\ \E now \in Clock :
          responses' = Append(responses, Sent(s, "err", "none", now))
    /\ handler' = [handler EXCEPT ![s] = Idle]
    /\ UNCHANGED <<nconn, runvars, padvars>>

\* line 40: Err(_), the 5 seconds are over, and the answer of lines 47-73
ConnectTimeout(s) ==
    /\ handler[s].pc = "connecting"
    /\ \E now \in Clock :
          responses' = Append(responses, Sent(s, "timeout", "none", now))
    /\ handler' = [handler EXCEPT ![s] = Idle]
    /\ UNCHANGED <<nconn, runvars, padvars>>

\* lines 36-37: close(None).await returns, its result is dropped; and the
\* answer of lines 47-73
CloseReturns(s) ==
    /\ handler[s].pc = "closing"
    /\ \E close \in {"ok", "err"}, now \in Clock :
          responses' = Append(responses, Sent(s, "ok", close, now))
    /\ handler' = [handler EXCEPT ![s] = Idle]
    /\ UNCHANGED <<nconn, runvars, padvars>>

NextHealth ==
    \E s \in Slots :
        \/ Request(s)
        \/ ConnectOk(s)
        \/ ConnectErr(s)
        \/ ConnectTimeout(s)
        \/ CloseReturns(s)

SpecHealth == InitHealth /\ [][NextHealth]_vars

\* the timer of timeout(Duration::from_secs(5), ..) ends every wait for
\* connect_async; nothing bounds the wait for close(None)
SpecHealthFair ==
    /\ SpecHealth
    /\ \A s \in Slots :
          WF_vars(ConnectOk(s) \/ ConnectErr(s) \/ ConnectTimeout(s))

-----------------------------------------------------------------------------
(* History readings shared by the properties *)

EvIdx(type) == {j \in DOMAIN evlog : evlog[j].type = type}
OutIdx(kind) == {i \in DOMAIN out : out[i].kind = kind}

\* the step just taken matched a message of this type
Matched(type) ==
    /\ Len(evlog') = Len(evlog) + 1
    /\ evlog'[Len(evlog')].type = type

\* the message that closes the word of Word message j: the first Word or
\* EndWord after it, 0 when there is none yet
Closer(j) ==
    LET later == {k \in DOMAIN evlog :
                     k > j /\ evlog[k].type \in {"Word", "EndWord"}}
    IN  IF later = {} THEN 0
        ELSE CHOOSE k \in later : \A l \in later : k <= l

\* the next Word message after message j, 0 when there is none
NextWord(j) ==
    LET later == {k \in EvIdx("Word") : k > j}
    IN  IF later = {} THEN 0
        ELSE CHOOSE k \in later : \A l \in later : k <= l

-----------------------------------------------------------------------------
(* C1: in timestamped mode a completed run has printed exactly one word    *)
(* line per Word message: as many lines as Word messages, each Word        *)
(* message the origin of exactly one line carrying its text and start.     *)
C1_OneLinePerWord ==
    (pc = "done" /\ timestamps) =>
        /\ Cardinality(OutIdx("line")) = Cardinality(EvIdx("Word"))
        /\ \A j \in EvIdx("Word") :
              Cardinality({i \in OutIdx("line") : out[i].ev = j}) = 1
        /\ \A i \in OutIdx("line") :
              /\ out[i].ev \in EvIdx("Word")
              /\ out[i].text = WordText(evlog[out[i].ev].tokens)
              /\ out[i].start = evlog[out[i].ev].time

\* a completed timestamped run with three words, or two and an EndWord
C1_Witness ==
    /\ pc = "done" /\ timestamps
    /\ Cardinality(EvIdx("Word")) >= 2
    /\ Len(evlog) = 3
    /\ evlog[3].type = "Word"

(* C2 as stated: in timestamped mode an EndWord prints no line, so every   *)
(* closed line's stop is the start_time of the next Word message.          *)
C2_Original ==
    timestamps =>
        \A i \in OutIdx("line") :
            out[i].stop # OPEN =>
                /\ NextWord(out[i].ev) # 0
                /\ out[i].stop = evlog[NextWord(out[i].ev)].time

(* C2 amended: in timestamped mode an EndWord that finds last_word         *)
(* occupied prints it as [start, stop_time of the EndWord] and empties     *)
(* last_word, and prints nothing when it is empty; a word is closed by the *)
(* first Word or EndWord message after its own, or by the end of the       *)
(* stream: every line's stop is that message's time, blank if none came.   *)
C2_EndWordCloses ==
    /\ [][(timestamps /\ Matched("EndWord")) =>
            /\ last_word' = None
            /\ IF last_word.some
               THEN out' = Append(out,
                        Line(last_word, evlog'[Len(evlog')].time))
               ELSE out' = out]_vars
    /\ [](timestamps =>
            \A i \in OutIdx("line") :
                LET c == Closer(out[i].ev)
                IN  IF c = 0 THEN out[i].stop = OPEN /\ pc = "done"
                    ELSE out[i].stop = evlog[c].time)

\* a line closed by an EndWord's stop_time, then a second word
C2_Witness ==
    /\ timestamps
    /\ Len(evlog) = 3
    /\ evlog[1].type = "Word" /\ evlog[2].type = "EndWord"
    /\ evlog[3].type = "Word"
    /\ \E i \in OutIdx("line") : out[i].ev = 1 /\ out[i].stop = evlog[2].time
    /\ last_word.some

(* C3: with vad on, between the Steps of any two end-of-turn markers a     *)
(* Word or EndWord message was matched; and while the latch is set a Step  *)
(* prints nothing and leaves the latch set, whatever its probability.      *)
C3_NoRepeatedMarker ==
    /\ [](\A a, b \in OutIdx("eot") :
            a < b =>
                \E k \in DOMAIN evlog :
                    /\ out[a].ev < k /\ k < out[b].ev
                    /\ evlog[k].type \in {"Word", "EndWord"})
    /\ [][(printed_eot /\ Matched("Step")) =>
            (out' = out /\ printed_eot')]_vars

\* one marker for three Steps: above the threshold, at it, above it again
C3_Witness ==
    /\ vad /\ printed_eot
    /\ Len(evlog) = 3
    /\ \A j \in 1..3 : evlog[j].type = "Step"
    /\ evlog[1].prs[EOT_HORIZON] > EOT_THRESHOLD
    /\ evlog[2].prs[EOT_HORIZON] <= EOT_THRESHOLD
    /\ evlog[3].prs[EOT_HORIZON] > EOT_THRESHOLD
    /\ Cardinality(OutIdx("eot")) = 1

(* C4: a Step prints an end-of-turn marker exactly when vad is on, its     *)
(* prs[2] is above 0.5 and the latch is clear; it then prints one marker   *)
(* with that probability and sets the latch; otherwise it prints nothing   *)
(* and leaves the latch as it was.                                         *)
C4_MarkerIff ==
    [][Matched("Step") =>
        LET p == evlog'[Len(evlog')].prs[EOT_HORIZON]
        IN  IF vad /\ p > EOT_THRESHOLD /\ ~printed_eot
            THEN /\ Len(out') = Len(out) + 1
                 /\ SubSeq(out', 1, Len(out)) = out
                 /\ out'[Len(out')].kind = "eot"
                 /\ out'[Len(out')].pr = p
                 /\ printed_eot'
            ELSE out' = out /\ printed_eot' = printed_eot]_vars

\* the marker of a Step at 0.6, then a Step at 0.7 that prints nothing
C4_Witness ==
    /\ vad
    /\ Len(evlog) = 2
    /\ evlog[1].type = "Step" /\ evlog[1].prs[EOT_HORIZON] = 60
    /\ evlog[2].type = "Step" /\ evlog[2].prs[EOT_HORIZON] = 70
    /\ Cardinality(OutIdx("eot")) = 1
    /\ \E i \in OutIdx("eot") : out[i].pr = 60 /\ out[i].ev = 1

(* C5: every Word and every EndWord message clears the latch, in both      *)
(* modes and whatever last_word holds; so with vad on, a Step above the    *)
(* threshold that has a Word or EndWord before it and no Step above the    *)
(* threshold in between prints a marker.                                   *)
C5_WordClearsLatch ==
    /\ [][(Matched("Word") \/ Matched("EndWord")) => ~printed_eot']_vars
    /\ [](vad =>
            \A k \in EvIdx("Step") :
                (/\ evlog[k].prs[EOT_HORIZON] > EOT_THRESHOLD
                 /\ \E j \in 1..(k - 1) :
                       /\ evlog[j].type \in {"Word", "EndWord"}
                       /\ \A l \in (j + 1)..(k - 1) :
                             evlog[l].type = "Step" =>
                                evlog[l].prs[EOT_HORIZON] <= EOT_THRESHOLD)
                => \E i \in OutIdx("eot") :
                       out[i].ev = k /\ out[i].pr = evlog[k].prs[EOT_HORIZON])

\* a marker, an EndWord, and the marker of the next Step above the threshold
C5_Witness ==
    /\ vad
    /\ Len(evlog) = 3
    /\ evlog[1].type = "Step" /\ evlog[2].type = "EndWord"
    /\ evlog[3].type = "Step"
    /\ {out[i].ev : i \in OutIdx("eot")} = {1, 3}

(* C6: in timestamped mode a Word message that finds last_word occupied    *)
(* prints it then as [its start, start_time of the message]; one that      *)
(* finds it empty prints nothing; either way last_word afterwards holds    *)
(* the text and start_time of the message.                                 *)
C6_WordFlushesPending ==
    [][(timestamps /\ Matched("Word")) =>
        LET m == evlog'[Len(evlog')]
        IN  /\ last_word'.some
            /\ last_word'.word = WordText(m.tokens)
            /\ last_word'.start = m.time
            /\ IF last_word.some
               THEN /\ Len(out') = Len(out) + 1
                    /\ SubSeq(out', 1, Len(out)) = out
                    /\ out'[Len(out')].kind = "line"
                    /\ out'[Len(out')].text = last_word.word
                    /\ out'[Len(out')].start = last_word.start
                    /\ out'[Len(out')].stop = m.time
               ELSE out' = out]_vars

\* hello at 0.0 closed by world at 0.4, world pending
C6_Witness ==
    /\ timestamps /\ pc = "run"
    /\ evlog = <<WordMsg(TokHello, 0), WordMsg(TokWorld, 40)>>
    /\ last_word.some /\ last_word.word = "world" /\ last_word.start = 40
    /\ \E i \in OutIdx("line") :
          out[i].text = "hello" /\ out[i].start = 0 /\ out[i].stop = 40

IsLine(item) == item.kind = "line"
IsText(item) == item.kind = "text"

\* what a line shows: start, stop, word
Shown(item) == <<item.start, item.stop, item.text>>

ShownLines ==
    LET ls == SelectSeq(out, IsLine)
    IN  [i \in DOMAIN ls |-> Shown(ls[i])]

(* C7: the end of the stream prints last_word, when occupied, once, as the *)
(* last word line and with a blank stop, and prints no word line when it   *)
(* is empty; last_word is empty in every completed run.  Word(hello,0.0),  *)
(* Word(world,0.4) gives [0.00-0.40] hello, then [0.40-     ] world.       *)
C7_EndOfStreamFlush ==
    /\ [][(pc = "run" /\ pc' = "done") =>
            IF last_word.some
            THEN /\ Len(out') = Len(out) + 2
                 /\ SubSeq(out', 1, Len(out)) = out
                 /\ out'[Len(out) + 1].kind = "line"
                 /\ Shown(out'[Len(out) + 1]) =
                        <<last_word.start, OPEN, last_word.word>>
                 /\ out'[Len(out) + 2].kind = "blank"
            ELSE out' = Append(out, Blank)]_vars
    /\ [](pc = "done" => ~last_word.some)
    /\ []((/\ pc = "done" /\ timestamps
           /\ evlog = <<WordMsg(TokHello, 0), WordMsg(TokWorld, 40)>>)
          => ShownLines = << <<0, 40, "hello">>, <<40, OPEN, "world">> >>)

\* the completed run of the two-word scenario
C7_Witness ==
    /\ pc = "done" /\ timestamps
    /\ evlog = <<WordMsg(TokHello, 0), WordMsg(TokWorld, 40)>>
    /\ Len(ShownLines) = 2

\* output items other than the final empty line
Items == {i \in DOMAIN out : out[i].kind # "blank"}

(* C8 as stated: of any two output items, the one whose Word or Step       *)
(* message arrived first is printed first, in both modes.                  *)
C8_Original ==
    \A a, b \in Items : a < b => out[a].ev < out[b].ev

\* Word start times arrived in non-decreasing order
WordsMonotone ==
    \A j, k \in EvIdx("Word") : j < k => evlog[j].time <= evlog[k].time

(* C8 amended: words are printed in the arrival order of their Word        *)
(* messages and markers in that of their Steps; in plain-text mode every   *)
(* item is printed in the arrival order of its message; in timestamped     *)
(* mode a line is printed when its word is closed, so a marker comes       *)
(* before a line exactly when its Step arrived before the message that     *)
(* closed the word (or the word was closed by the end of the stream);      *)
(* line start times are non-decreasing when the Word start times are.      *)
C8_OrderPreserved ==
    /\ \A a, b \in Items :
          (a < b /\ (out[a].kind = out[b].kind \/ ~timestamps))
              => out[a].ev < out[b].ev
    /\ \A a \in OutIdx("eot"), b \in OutIdx("line") :
          (a < b) <=>
              (Closer(out[b].ev) = 0 \/ out[a].ev < Closer(out[b].ev))
    /\ WordsMonotone =>
          \A a, b \in OutIdx("line") : a < b => out[a].start <= out[b].start

\* a marker printed before the line of a word that arrived before its Step
C8_Witness ==
    /\ timestamps /\ vad
    /\ \E a \in OutIdx("eot"), b \in OutIdx("line") :
          a < b /\ out[b].ev < out[a].ev
    /\ Cardinality(OutIdx("line")) = 2
    /\ WordsMonotone

(* C9: in plain-text mode a Word message prints its text at once, without  *)
(* times, and the texts are in arrival order; an EndWord prints nothing;   *)
(* last_word is never occupied and the end of the stream prints no word.   *)
C9_PlainText ==
    /\ [][(~timestamps /\ Matched("Word")) =>
            /\ Len(out') = Len(out) + 1
            /\ SubSeq(out', 1, Len(out)) = out
            /\ out'[Len(out')].kind = "text"
            /\ out'[Len(out')].text = WordText(evlog'[Len(evlog')].tokens)
            /\ out'[Len(out')].ev = Len(evlog')]_vars
    /\ [][(~timestamps /\ Matched("EndWord")) => out' = out]_vars
    /\ [][(~timestamps /\ pc = "run" /\ pc' = "done") =>
            out' = Append(out, Blank)]_vars
    /\ [](~timestamps =>
            /\ ~last_word.some
            /\ OutIdx("line") = {}
            /\ \A a, b \in OutIdx("text") : a < b => out[a].ev < out[b].ev)

\* the completed plain-text run of hello, an EndWord, world
C9_Witness ==
    /\ ~timestamps /\ pc = "done"
    /\ evlog = <<WordMsg(TokHello, 0), EndWordMsg(30), WordMsg(TokWorld, 40)>>
    /\ LET ts == SelectSeq(out, IsText)
       IN  [i \in DOMAIN ts |-> ts[i].text] = <<"hello", "world">>

(* C10: when step_pcm fails on a chunk the run returns that error: the     *)
(* failing chunk is the last one given to the decoder, no chunk is given   *)
(* twice, nothing is matched or printed by the failing step, and no step   *)
(* follows a failed state.                                                 *)
C10_DecodeErrorAborts ==
    /\ [](err = "decode" =>
            /\ pc = "failed"
            /\ asr_msgs = <<>>
            /\ fed # <<>> /\ fed[Len(fed)] = pos)
    /\ [](\A a, b \in DOMAIN fed : a < b => fed[a] < fed[b])
    /\ [][(err = "none" /\ err' = "decode") =>
            /\ out' = out /\ evlog' = evlog
            /\ last_word' = last_word /\ printed_eot' = printed_eot]_vars
    /\ [][pc = "failed" => UNCHANGED vars]_vars

\* a failure on a later chunk, after messages were matched, a word pending
C10_Witness ==
    /\ pc = "failed" /\ err = "decode"
    /\ Len(fed) >= 3
    /\ Len(evlog) >= 2
    /\ last_word.some
    /\ pos < pcm_len


(* C11: a Word whose piece ids the tokenizer cannot decode is handled as a *)
(* Word with empty text: the latch is cleared, last_word is printed if     *)
(* occupied and then holds ("", start_time), or " " is printed in          *)
(* plain-text mode; the step returns no error of its own (the run goes on  *)
(* unless the stdout flush of the plain-text path fails, as for any word), *)
(* and the messages and chunks after it are handled.                       *)
C11_DecodeFailureIsEmptyWord ==
    /\ [](pc = "run" /\ (\E j \in EvIdx("Word") :
                            ~decode_piece_ids(evlog[j].tokens).ok)
            => ENABLED Next)
    /\ [][(Matched("Word") /\ ~decode_piece_ids(Head(asr_msgs).tokens).ok) =>
        LET m == Head(asr_msgs)
        IN  /\ ~printed_eot'
            /\ err' # "decode"
            /\ pc' = "failed" => (~timestamps /\ err' = "io")
            /\ pc' = "run" =>
                  /\ asr_msgs' = Tail(asr_msgs)
                  /\ pos' = pos /\ pcm_len' = pcm_len
            /\ IF timestamps
               THEN /\ pc' = "run"
                    /\ last_word'.some
                    /\ last_word'.word = "" /\ last_word'.start = m.time
                    /\ IF last_word.some
                       THEN /\ Len(out') = Len(out) + 1
                            /\ SubSeq(out', 1, Len(out)) = out
                            /\ Shown(out'[Len(out')]) =
                                   <<last_word.start, m.time, last_word.word>>
                       ELSE out' = out
               ELSE /\ last_word' = last_word
                    /\ Len(out') = Len(out) + 1
                    /\ SubSeq(out', 1, Len(out)) = out
                    /\ out'[Len(out')].kind = "text"
                    /\ out'[Len(out')].text = ""]_vars

\* a completed timestamped run: an undecodable word, printed with empty
\* text when the next word arrived, that word printed at the end
C11_Witness ==
    /\ pc = "done" /\ timestamps
    /\ Len(evlog) = 3
    /\ evlog[1] = WordMsg(TokHello, 0)
    /\ evlog[2] = WordMsg(TokBad, 40)
    /\ evlog[3] = WordMsg(TokWorld, 40)
    /\ ShownLines = << <<0, 40, "hello">>, <<40, 40, "">>,
                       <<40, OPEN, "world">> >>


\* the number of samples of the i-th chunk given to step_pcm, for a chunk
\* whose call has returned Ok
ChunkLen(i) == (IF i < Len(fed) THEN fed[i + 1] ELSE pos) - fed[i]

\* the chunks whose step_pcm call returned Ok
FedOk == {i \in DOMAIN fed : i < Len(fed) \/ err # "decode"}

NumChunks(len) == (len + CHUNK - 1) \div CHUNK

(* C12: the chunks are given to the decoder one after the other in the     *)
(* order of the waveform: the i-th chunk starts at (i-1)*1920, a chunk is  *)
(* given only when every message of the one before has been matched, the   *)
(* messages are matched in the order returned, every chunk has 1920        *)
(* samples except a shorter last one, and a completed run has given every  *)
(* sample of the padded waveform once.                                     *)
C12_SequentialChunks ==
    /\ [](\A i \in DOMAIN fed : fed[i] = (i - 1) * CHUNK)
    /\ [](pos <= pcm_len)
    /\ [](\A i \in FedOk :
            /\ ChunkLen(i) > 0
            /\ ChunkLen(i) <= CHUNK
            /\ ChunkLen(i) < CHUNK => fed[i] + ChunkLen(i) = pcm_len)
    /\ [](pc = "done" =>
            /\ pos = pcm_len
            /\ Len(fed) = NumChunks(pcm_len)
            /\ FedOk = DOMAIN fed)
    /\ [][fed' # fed =>
            /\ asr_msgs = <<>>
            /\ fed' = Append(fed, pos)
            /\ evlog' = evlog]_vars
    /\ [][evlog' # evlog =>
            /\ asr_msgs # <<>>
            /\ evlog' = Append(evlog, Head(asr_msgs))
            /\ fed' = fed
            /\ asr_msgs' = Tail(asr_msgs) \/ pc' = "failed"]_vars

\* a completed run over a waveform whose last chunk is short, with
\* messages from more than one chunk
C12_Witness ==
    /\ pc = "done"
    /\ pcm_len % CHUNK # 0
    /\ Len(fed) = NumChunks(pcm_len)
    /\ ChunkLen(Len(fed)) = pcm_len % CHUNK
    /\ Len(evlog) = 3


(* C13: for a raw waveform of n samples and durations >= 0, the padded     *)
(* waveform has n + floor(prefix*24000) + floor(delay*24000) + 24000       *)
(* samples, the raw samples stand unchanged and contiguous from offset     *)
(* floor(prefix*24000), and every other sample is zero; with a prefix      *)
(* duration <= 0 nothing is put in front of the raw samples.               *)
C13_PaddedWaveform ==
    LET n == Len(raw)
        P == (prefix_us * SAMPLE_RATE) \div 1000000
        D == (delay_us * SAMPLE_RATE) \div 1000000
    IN  /\ (pad_pc = "padded" /\ prefix_us >= 0 /\ delay_us >= 0) =>
              /\ Len(pcm) = n + P + D + SAMPLE_RATE
              /\ \A i \in 1..n : pcm[P + i] = raw[i]
              /\ \A i \in DOMAIN pcm : (i <= P \/ i > P + n) => pcm[i] = 0
        /\ (pad_pc \in {"suffix", "padded"} /\ prefix_us <= 0) =>
              SubSeq(pcm, 1, n) = raw
        /\ (pad_pc = "suffix" /\ prefix_us <= 0) => pcm = raw
        /\ pad_pc = "padded" => Len(pcm) = PaddedLen(n, prefix_us, delay_us)

\* two raw samples, a prefix of 1.2 samples cut to 1, a delay of 2.4 cut to 2
C13_Witness ==
    /\ pad_pc = "padded"
    /\ raw = <<5, -5>>
    /\ prefix_us = 50 /\ delay_us = 100
    /\ Len(pcm) = 2 + 1 + 2 + SAMPLE_RATE
    /\ SubSeq(pcm, 1, 4) = <<0, 5, -5, 0>>


Healthy(r) ==
    r.status = "healthy" /\ r.websocket_available /\ r.http = 200
Degraded(r) ==
    r.status = "degraded" /\ ~r.websocket_available /\ r.http = 503

(* C14 as stated: a connection that could not be set up, or could not be   *)
(* closed gracefully, is answered degraded; healthy is answered only for a *)
(* connection both accepted and gracefully closed.                         *)
C14_Original ==
    \A i \in DOMAIN responses :
        LET e == responses[i]
        IN  /\ (e.connect # "ok" \/ e.close # "ok") => Degraded(e.resp)
            /\ Healthy(e.resp) => (e.connect = "ok" /\ e.close = "ok")

(* C14 amended: a connection that is refused, or not set up within the 5   *)
(* seconds, is answered degraded (websocket_available false, 503); an      *)
(* accepted connection is answered healthy whether or not its close        *)
(* succeeded, the close being tried and its result dropped; after either   *)
(* answer the slot takes the next request.                                 *)
C14_ConnectDecides ==
    /\ \A i \in DOMAIN responses :
          LET e == responses[i]
          IN  /\ e.connect \in {"err", "timeout"} => Degraded(e.resp)
              /\ e.connect = "ok" => Healthy(e.resp)
              /\ e.connect \in {"ok", "err", "timeout"}
    /\ \A s \in Slots :
          (handler[s].pc = "idle" /\ nconn < MaxConns) => ENABLED Request(s)

\* a timeout answered degraded, then on the same slot an accepted
\* connection whose close failed answered healthy
C14_Witness ==
    /\ Len(responses) >= 2
    /\ responses[1].connect = "timeout" /\ Degraded(responses[1].resp)
    /\ responses[2].slot = responses[1].slot
    /\ responses[2].connect = "ok" /\ responses[2].close = "err"
    /\ Healthy(responses[2].resp)

(* C15: every answer of /health is one of two shapes: healthy, available,  *)
(* 200, no error; or degraded, not available, 503, with an error message.  *)
C15_ConsistentResponse ==
    \A i \in DOMAIN responses :
        LET r == responses[i].resp
        IN  \/ /\ r.status = "healthy" /\ r.websocket_available
               /\ r.http = 200 /\ ~r.has_error
            \/ /\ r.status = "degraded" /\ ~r.websocket_available
               /\ r.http = 503 /\ r.has_error /\ r.error # ""

\* answers of both shapes, one of them after a close that failed
C15_Witness ==
    /\ \E i \in DOMAIN responses : Healthy(responses[i].resp)
    /\ \E i \in DOMAIN responses : Degraded(responses[i].resp)
    /\ \E i \in DOMAIN responses : responses[i].close = "err"

(* C16 as stated: every request in flight is answered in the end, also     *)
(* when the remote end never completes the handshake or never answers the  *)
(* close.                                                                  *)
C16_Original ==
    \A s \in Slots : (handler[s].pc # "idle") ~> (handler[s].pc = "idle")

\* a request waiting for connect_async leaves that wait: the handshake is
\* what the timer bounds
HandshakeWaitEnds ==
    \A s \in Slots :
        (handler[s].pc = "connecting") ~> (handler[s].pc # "connecting")


-----------------------------------------------------------------------------
\* the run has ended with Ok(()) / with an error returned by `?`
Completed == pc = "done"
Failed == pc = "failed"

-----------------------------------------------------------------------------
\* how many messages of this type evlog has up to message j
Rank(j, type) == Cardinality({k \in EvIdx(type) : k <= j})

\* the Word message that EndWord message e matches: the n-th Word for the
\* n-th EndWord, 0 when there are fewer Words
MatchOf(e) ==
    LET ws == {w \in EvIdx("Word") :
                  Rank(w, "Word") = Rank(e, "EndWord")}
    IN  IF ws = {} THEN 0 ELSE CHOOSE w \in ws : TRUE

\* the ordering the decoder keeps: Word start times do not decrease, a Word
\* comes before the EndWord that matches it, and that EndWord's stop_time is
\* not before the Word's start_time
OrderingInvariant ==
    /\ \A j, k \in EvIdx("Word") : j < k => evlog[j].time <= evlog[k].time
    /\ \A e \in EvIdx("EndWord") :
          /\ MatchOf(e) # 0
          /\ MatchOf(e) < e
          /\ evlog[e].time >= evlog[MatchOf(e)].time

(* C18 as stated: in timestamped mode, when the messages keep the          *)
(* decoder's ordering (with later Words allowed before an earlier word's   *)
(* EndWord), every closed line has stop >= start, and a line closed by an  *)
(* EndWord is the line of the Word that this EndWord matches.              *)
C18_Original ==
    (timestamps /\ OrderingInvariant) =>
        \A i \in OutIdx("line") :
            out[i].stop # OPEN =>
                /\ out[i].stop >= out[i].start
                /\ LET c == Closer(out[i].ev)
                   IN  (c # 0 /\ evlog[c].type = "EndWord") =>
                           MatchOf(c) = out[i].ev

-----------------------------------------------------------------------------
(* C19: when a timestamped run fails on a chunk the decoder returned an    *)
(* error for, the failing step prints nothing and nothing is printed       *)
(* after it: no empty line, no line with a blank stop, the word held in    *)
(* last_word is in no line, and the output is that of the messages of the  *)
(* chunks that succeeded, all of them matched: one line for every Word     *)
(* that a later message closed, in order, and nothing for the last one.    *)
C19_NothingAfterFailure ==
    /\ [][(timestamps /\ pc' = "failed" /\ err' = "decode") =>
            /\ out' = out
            /\ last_word' = last_word
            /\ evlog' = evlog]_vars
    /\ []((timestamps /\ Failed /\ err = "decode") =>
            /\ ~ENABLED Next
            /\ asr_msgs = <<>>
            /\ OutIdx("blank") = {}
            /\ \A i \in OutIdx("line") : out[i].stop # OPEN
            /\ last_word.some =>
                  /\ \A i \in DOMAIN out : out[i].ev # last_word.ev
                  /\ Closer(last_word.ev) = 0
            /\ {out[i].ev : i \in OutIdx("line")} =
                  {j \in EvIdx("Word") : Closer(j) # 0}
            /\ \A i \in OutIdx("line") :
                  /\ out[i].text = WordText(evlog[out[i].ev].tokens)
                  /\ out[i].start = evlog[out[i].ev].time
                  /\ out[i].stop = evlog[Closer(out[i].ev)].time
            /\ \A i, k \in OutIdx("line") : i < k => out[i].ev < out[k].ev)

\* a timestamped run that fails on its second chunk while a word is held
\* in last_word, after a line was printed
C19_Witness ==
    /\ timestamps /\ Failed /\ err = "decode"
    /\ Len(fed) = 2
    /\ last_word.some
    /\ OutIdx("line") # {}

====
